---- MODULE Spec2Model ----
(***************************************************************************)
(* svgpath2mpl: the command interpreter _parse_path and the path builder   *)
(* parse_path of src/svgpath2mpl.py as a state machine.                    *)
(*                                                                         *)
(* One step of the machine is one iteration of the `while elements:` loop  *)
(* of _parse_path together with parse_path's extend of what the iteration  *)
(* yielded.  Coordinates are integers (the floats of the source, without   *)
(* rounding).  A point (a Python complex) is a pair <<x, y>>.  An          *)
(* optional value (None, or a local that is not bound yet) is <<>> and a   *)
(* present one is <<v>>.                                                   *)
(*                                                                         *)
(* The path string is either one of the test suite's PATH_DATA strings     *)
(* (its tokens are then given up front in `elements`), or any token        *)
(* stream over Vals: the parser only ever pops the head of `elements`, so  *)
(* the tokens of such a stream are drawn when the iteration that pops them *)
(* runs, and `elements` keeps only what an iteration that failed left      *)
(* unread.                                                                 *)
(*                                                                         *)
(* Two parts of the program are also followed on their own: the tokenizer  *)
(* _tokenize_path character by character (TokSpec, one step per piece of   *)
(* COMMAND_RE.split), and the arc conversion of the A branch,              *)
(* endpoint_to_center and the scaling of the unit arc (ArcSpec), in exact  *)
(* arithmetic on squares at rotation 0.                                    *)
(***************************************************************************)
EXTENDS Integers, Sequences, FiniteSets, TLC

\* ------------------------------------------------------------------ bounds

\* Numeric tokens of a drawn token stream range over 0..MaxVal.
MaxVal == 1

\* Loop iterations of a drawn token stream.
MaxSteps == 3

Vals == 0..MaxVal

\* ------------------------------------------------------------------ tables

COMMANDS ==
  {"M", "m", "Z", "z", "L", "l", "H", "h", "V", "v",
   "C", "c", "S", "s", "Q", "q", "T", "t", "A", "a"}

UPPERCASE == {"M", "Z", "L", "H", "V", "C", "S", "Q", "T", "A"}

\* str.upper() on a command letter.
Upper(c) ==
  CASE c \in {"M", "m"} -> "M"
    [] c \in {"Z", "z"} -> "Z"
    [] c \in {"L", "l"} -> "L"
    [] c \in {"H", "h"} -> "H"
    [] c \in {"V", "v"} -> "V"
    [] c \in {"C", "c"} -> "C"
    [] c \in {"S", "s"} -> "S"
    [] c \in {"Q", "q"} -> "Q"
    [] c \in {"T", "t"} -> "T"
    [] c \in {"A", "a"} -> "A"

\* str.lower() on an uppercase command letter.
Lower(c) ==
  CASE c = "M" -> "m" [] c = "Z" -> "z" [] c = "L" -> "l" [] c = "H" -> "h"
    [] c = "V" -> "v" [] c = "C" -> "c" [] c = "S" -> "s" [] c = "Q" -> "q"
    [] c = "T" -> "t" [] c = "A" -> "a"

\* COMMAND_CODES: the opcodes yielded for a command ('A' : None is absent).
COMMAND_CODES(c) ==
  CASE c = "M" -> <<"MOVETO">>
    [] c = "L" -> <<"LINETO">>
    [] c = "H" -> <<"LINETO">>
    [] c = "V" -> <<"LINETO">>
    [] c = "Q" -> <<"CURVE3", "CURVE3">>
    [] c = "T" -> <<"CURVE3", "CURVE3">>
    [] c = "C" -> <<"CURVE4", "CURVE4", "CURVE4">>
    [] c = "S" -> <<"CURVE4", "CURVE4", "CURVE4">>
    [] c = "Z" -> <<"CLOSEPOLY">>

\* PARAMS: the table of arities (no code refers to it).
PARAMS(c) ==
  CASE c = "M" -> 2 [] c = "L" -> 2 [] c = "H" -> 1 [] c = "V" -> 1
    [] c = "Q" -> 4 [] c = "T" -> 4 [] c = "C" -> 6 [] c = "S" -> 6
    [] c = "Z" -> 0 [] c = "A" -> 7

\* The numbers a command's branch reads from `elements` (its _next_pos and
\* elements.pop() calls, in order).
Reads(c) ==
  CASE c = "M" -> 2 [] c = "L" -> 2 [] c = "H" -> 1 [] c = "V" -> 1
    [] c = "C" -> 6 [] c = "S" -> 4 [] c = "Q" -> 4 [] c = "T" -> 2
    [] c = "Z" -> 0 [] c = "A" -> 7

\* matplotlib's Path.arc(theta1, theta2) makes n = 2^ceil(span / 90deg) cubic
\* segments for a span in [0, 360]: 1 for an empty span, else 2, 4, 8 or 16.
ARC_SEGMENTS == {1, 2, 4, 8, 16}

\* The segment counts tried for an arc (its angles are not computed).
DrawnSegments == {2, 4}

\* ------------------------------------------------------------------ values

None == <<>>

Some(v) == <<v>>

Add(p, q) == <<p[1] + q[1], p[2] + q[2]>>

Sub(p, q) == <<p[1] - q[1], p[2] - q[2]>>

\* A token of the path string: a command letter or a numeric literal.
Cmd(c) == [isCmd |-> TRUE, letter |-> c, num |-> 0]

Num(v) == [isCmd |-> FALSE, letter |-> "", num |-> v]

\* One yield of _parse_path: (codes, verts).
Instr(codes, verts) == [codes |-> codes, verts |-> verts]

\* Vertex i of the arc that Path.arc and the affine transform produce: its
\* coordinates are not integers and are kept abstract.
ArcVertex(i) == <<"arc", i>>

RECURSIVE Repeat(_, _)
Repeat(x, n) == IF n = 0 THEN <<>> ELSE <<x>> \o Repeat(x, n - 1)

\* Path.arc: 3n + 1 vertices, the first one a MOVETO, the others CURVE4.
PathArc(n) ==
  Instr(<<"MOVETO">> \o Repeat("CURVE4", 3 * n),
        [i \in 1..(3 * n + 1) |-> ArcVertex(i - 1)])

\* a[1:] on a sequence.
DropFirst(a) == SubSeq(a, 2, Len(a))

\* The arc as yielded: codes[1:], verts[1:, :] when sweep is truthy.
ArcYield_KeepsCode(arc, sweep) ==
  IF sweep # 0 THEN Instr(arc.codes, DropFirst(arc.verts)) ELSE arc

ArcYield_DropsWhenClear(arc, sweep) ==
  IF sweep = 0 THEN Instr(DropFirst(arc.codes), DropFirst(arc.verts)) ELSE arc

ArcYield(arc, sweep) ==
  IF sweep # 0 THEN Instr(DropFirst(arc.codes), DropFirst(arc.verts)) ELSE arc

\* ------------------------------------------------------------------ reading

\* float(elements.pop()): IndexError on an empty list, ValueError on a
\* command letter (which was popped).
ReadFloat_DefaultsToZero(r) ==
  IF ~r.ok THEN r
  ELSE IF r.els = <<>> THEN [r EXCEPT !.vals = Append(r.vals, 0)]
  ELSE IF Head(r.els).isCmd
    THEN [r EXCEPT !.ok = FALSE, !.err = "ValueError", !.els = Tail(r.els)]
  ELSE [r EXCEPT !.els = Tail(r.els), !.vals = Append(r.vals, Head(r.els).num)]

ReadFloat(r) ==
  IF ~r.ok THEN r
  ELSE IF r.els = <<>> THEN [r EXCEPT !.ok = FALSE, !.err = "IndexError"]
  ELSE IF Head(r.els).isCmd
    THEN [r EXCEPT !.ok = FALSE, !.err = "ValueError", !.els = Tail(r.els)]
  ELSE [r EXCEPT !.els = Tail(r.els), !.vals = Append(r.vals, Head(r.els).num)]

RECURSIVE ReadN(_, _)
ReadN(r, k) == IF k = 0 THEN r ELSE ReadN(ReadFloat(r), k - 1)

\* The k numbers a branch reads from the pending tokens els.
Read(els, k) == ReadN([ok |-> TRUE, err |-> "", els |-> els, vals |-> <<>>], k)

\* ------------------------------------------------------------------ the loop body

\* The iteration raised: nothing is yielded, the generator is finished.
Raise(s, err, els) ==
  [s EXCEPT !.status = "error", !.error = err, !.elements = els,
            !.emitted = <<>>]

\* The iteration ran to its end and yielded `out`.
Yield(s, els, out) == [s EXCEPT !.elements = els, !.emitted = out]

\* MOVETO
DoM_KeepsMove(s) ==
  LET r == Read(s.elements, 2)
      pos == <<r.vals[1], r.vals[2]>>
      cp == IF s.absolute = Some(TRUE) THEN pos ELSE Add(s.current_pos, pos)
  IN IF ~r.ok THEN Raise(s, r.err, r.els)
     ELSE Yield([s EXCEPT !.current_pos = cp, !.start_pos = Some(cp),
                          !.last_moveto = Some(cp)],
                r.els, <<Instr(COMMAND_CODES("M"), <<cp>>)>>)

DoM(s) ==
  LET r == Read(s.elements, 2)
      pos == <<r.vals[1], r.vals[2]>>
      cp == IF s.absolute = Some(TRUE) THEN pos ELSE Add(s.current_pos, pos)
  IN IF ~r.ok THEN Raise(s, r.err, r.els)
     ELSE Yield([s EXCEPT !.current_pos = cp, !.start_pos = Some(cp),
                          !.command = "L", !.last_moveto = Some(cp)],
                r.els, <<Instr(COMMAND_CODES("M"), <<cp>>)>>)

\* CLOSEPATH
DoZ_KeepsCommand(s) ==
  IF s.start_pos = None
    THEN Raise(s, "AttributeError", s.elements)
  ELSE LET sp == s.start_pos[1]
           close == <<Instr(COMMAND_CODES("Z"), <<sp>>)>>
           out == IF s.current_pos # sp
                    THEN <<Instr(COMMAND_CODES("L"), <<sp>>)>> \o close
                    ELSE close
       IN Yield([s EXCEPT !.current_pos = sp, !.start_pos = None],
                s.elements, out)

DoZ_KeepsFrame(s) ==
  IF s.start_pos = None
    THEN Raise(s, "AttributeError", s.elements)
  ELSE LET sp == s.start_pos[1]
           close == <<Instr(COMMAND_CODES("Z"), <<sp>>)>>
           out == IF s.current_pos # sp
                    THEN <<Instr(COMMAND_CODES("L"), <<sp>>)>> \o close
                    ELSE close
       IN Yield([s EXCEPT !.current_pos = sp], s.elements, out)

DoZ_AlwaysLine(s) ==
  IF s.start_pos = None
    THEN Raise(s, "AttributeError", s.elements)
  ELSE LET sp == s.start_pos[1]
       IN Yield([s EXCEPT !.current_pos = sp, !.start_pos = None,
                          !.command = "None"],
                s.elements,
                <<Instr(COMMAND_CODES("L"), <<sp>>),
                  Instr(COMMAND_CODES("Z"), <<sp>>)>>)

DoZ(s) ==
  IF s.start_pos = None
    THEN Raise(s, "AttributeError", s.elements)
  ELSE LET sp == s.start_pos[1]
           close == <<Instr(COMMAND_CODES("Z"), <<sp>>)>>
           out == IF s.current_pos # sp
                    THEN <<Instr(COMMAND_CODES("L"), <<sp>>)>> \o close
                    ELSE close
       IN Yield([s EXCEPT !.current_pos = sp, !.start_pos = None,
                          !.command = "None"],
                s.elements, out)

\* LINETO
DoL(s) ==
  LET r == Read(s.elements, 2)
      p == <<r.vals[1], r.vals[2]>>
      pos == IF s.absolute = Some(TRUE) THEN p ELSE Add(p, s.current_pos)
  IN IF ~r.ok THEN Raise(s, r.err, r.els)
     ELSE Yield([s EXCEPT !.current_pos = pos], r.els,
                <<Instr(COMMAND_CODES("L"), <<pos>>)>>)

\* HORIZONTAL_PATHTO
DoH(s) ==
  LET r == Read(s.elements, 1)
      p == <<r.vals[1], s.current_pos[2]>>
      pos == IF s.absolute = Some(TRUE) THEN p
             ELSE <<p[1] + s.current_pos[1], p[2]>>
  IN IF ~r.ok THEN Raise(s, r.err, r.els)
     ELSE Yield([s EXCEPT !.current_pos = pos], r.els,
                <<Instr(COMMAND_CODES("H"), <<pos>>)>>)

\* VERTICAL_PATHTO
DoV_OffsetsBoth(s) ==
  LET r == Read(s.elements, 1)
      p == <<s.current_pos[1], r.vals[1]>>
      pos == IF s.absolute = Some(TRUE) THEN p ELSE Add(p, s.current_pos)
  IN IF ~r.ok THEN Raise(s, r.err, r.els)
     ELSE Yield([s EXCEPT !.current_pos = pos], r.els,
                <<Instr(COMMAND_CODES("V"), <<pos>>)>>)

DoV(s) ==
  LET r == Read(s.elements, 1)
      p == <<s.current_pos[1], r.vals[1]>>
      pos == IF s.absolute = Some(TRUE) THEN p
             ELSE <<p[1], p[2] + s.current_pos[2]>>
  IN IF ~r.ok THEN Raise(s, r.err, r.els)
     ELSE Yield([s EXCEPT !.current_pos = pos], r.els,
                <<Instr(COMMAND_CODES("V"), <<pos>>)>>)

\* The offset of a relative command's point.
Offset_Unshifted(s, p) == p

Offset(s, p) == IF s.absolute = Some(TRUE) THEN p ELSE Add(p, s.current_pos)

\* CUBIC_BEZIER
DoC(s) ==
  LET r == Read(s.elements, 6)
      control1 == Offset(s, <<r.vals[1], r.vals[2]>>)
      control2 == Offset(s, <<r.vals[3], r.vals[4]>>)
      end == Offset(s, <<r.vals[5], r.vals[6]>>)
  IN IF ~r.ok THEN Raise(s, r.err, r.els)
     ELSE Yield([s EXCEPT !.current_pos = end, !.control2 = Some(control2)],
                r.els, <<Instr(COMMAND_CODES("C"), <<control1, control2, end>>)>>)

\* current_pos + current_pos - last_control
Reflect_NotDoubled(current_pos, last_control) == Sub(current_pos, last_control)

Reflect(current_pos, last_control) ==
  Sub(Add(current_pos, current_pos), last_control)

\* last_command not in 'CS': a TypeError when last_command is None.
InLetters(last_command, letters) == last_command \in letters

\* SMOOTH_CUBIC_BEZIER
DoS(s) ==
  LET r == Read(s.elements, 4)
      control1 == IF ~InLetters(s.last_command, {"C", "S"}) THEN s.current_pos
                  ELSE Reflect(s.current_pos, s.control2[1])
      control2 == Offset(s, <<r.vals[1], r.vals[2]>>)
      end == Offset(s, <<r.vals[3], r.vals[4]>>)
  IN IF s.last_command = "None" THEN Raise(s, "TypeError", s.elements)
     ELSE IF InLetters(s.last_command, {"C", "S"}) /\ s.control2 = None
       THEN Raise(s, "UnboundLocalError", s.elements)
     ELSE IF ~r.ok THEN Raise(s, r.err, r.els)
     ELSE Yield([s EXCEPT !.current_pos = end, !.control2 = Some(control2)],
                r.els, <<Instr(COMMAND_CODES("S"), <<control1, control2, end>>)>>)

\* QUADRATIC_BEZIER
DoQ(s) ==
  LET r == Read(s.elements, 4)
      control == Offset(s, <<r.vals[1], r.vals[2]>>)
      end == Offset(s, <<r.vals[3], r.vals[4]>>)
  IN IF ~r.ok THEN Raise(s, r.err, r.els)
     ELSE Yield([s EXCEPT !.current_pos = end, !.control = Some(control)],
                r.els, <<Instr(COMMAND_CODES("Q"), <<control, end>>)>>)

\* SMOOTH_QUADRATIC_BEZIER
DoT_ReadsParams(s) ==
  LET r == Read(s.elements, 4)
      control == IF ~InLetters(s.last_command, {"Q", "T"}) THEN s.current_pos
                 ELSE Reflect(s.current_pos, s.control[1])
      end == Offset(s, <<r.vals[3], r.vals[4]>>)
  IN IF s.last_command = "None" THEN Raise(s, "TypeError", s.elements)
     ELSE IF InLetters(s.last_command, {"Q", "T"}) /\ s.control = None
       THEN Raise(s, "UnboundLocalError", s.elements)
     ELSE IF ~r.ok THEN Raise(s, r.err, r.els)
     ELSE Yield([s EXCEPT !.current_pos = end, !.control = Some(control)],
                r.els, <<Instr(COMMAND_CODES("T"), <<control, end>>)>>)

DoT(s) ==
  LET r == Read(s.elements, 2)
      control == IF ~InLetters(s.last_command, {"Q", "T"}) THEN s.current_pos
                 ELSE Reflect(s.current_pos, s.control[1])
      end == Offset(s, <<r.vals[1], r.vals[2]>>)
  IN IF s.last_command = "None" THEN Raise(s, "TypeError", s.elements)
     ELSE IF InLetters(s.last_command, {"Q", "T"}) /\ s.control = None
       THEN Raise(s, "UnboundLocalError", s.elements)
     ELSE IF ~r.ok THEN Raise(s, r.err, r.els)
     ELSE Yield([s EXCEPT !.current_pos = end, !.control = Some(control)],
                r.els, <<Instr(COMMAND_CODES("T"), <<control, end>>)>>)

\* endpoint_to_center divides by rx_sq and ry_sq (line 120) and by t1 + t2
\* (line 130), which is zero exactly when start and end coincide.
ArcDividesByZero(start, radius, end) ==
  radius[1] = 0 \/ radius[2] = 0 \/ start = end

\* ELLIPTICAL_ARC; n is the number of segments Path.arc makes for the angles
\* endpoint_to_center returns.
DoA(s, n) ==
  LET r == Read(s.elements, 7)
      radius == <<r.vals[1], r.vals[2]>>
      sweep == r.vals[5]
      end == Offset(s, <<r.vals[6], r.vals[7]>>)
  IN IF ~r.ok THEN Raise(s, r.err, r.els)
     ELSE IF ArcDividesByZero(s.current_pos, radius, end)
       THEN Raise(s, "ZeroDivisionError", r.els)
     ELSE Yield([s EXCEPT !.current_pos = end], r.els,
                <<ArcYield(PathArc(n), sweep)>>)

\* 2. Parse the current command
Branch(s, n) ==
  CASE s.command = "M" -> DoM(s)
    [] s.command = "Z" -> DoZ(s)
    [] s.command = "L" -> DoL(s)
    [] s.command = "H" -> DoH(s)
    [] s.command = "V" -> DoV(s)
    [] s.command = "C" -> DoC(s)
    [] s.command = "S" -> DoS(s)
    [] s.command = "Q" -> DoQ(s)
    [] s.command = "T" -> DoT(s)
    [] s.command = "A" -> DoA(s, n)

\* One iteration of `while elements:` on a state s whose elements are not
\* empty: 1. determine the current command, 2. parse it.
Iter_ImplicitMove(s, n) ==
  LET tok == Head(s.elements)
  IN IF tok.isCmd
       THEN LET c == Upper(tok.letter)
            IN Branch([s EXCEPT !.last_command = s.command,
                                !.command = c,
                                !.absolute = Some(tok.letter \in UPPERCASE),
                                !.elements = Tail(s.elements),
                                !.executed = c,
                                !.explicit = TRUE], n)
     ELSE IF s.command = "None"
       THEN Branch([s EXCEPT !.last_command = s.command,
                             !.command = "M",
                             !.absolute = Some(TRUE),
                             !.executed = "M",
                             !.explicit = FALSE], n)
     ELSE Branch([s EXCEPT !.last_command = s.command,
                           !.executed = s.command,
                           !.explicit = FALSE], n)

Iter(s, n) ==
  LET tok == Head(s.elements)
  IN IF tok.isCmd
       THEN LET c == Upper(tok.letter)
            IN Branch([s EXCEPT !.last_command = s.command,
                                !.command = c,
                                !.absolute = Some(tok.letter \in UPPERCASE),
                                !.elements = Tail(s.elements),
                                !.executed = c,
                                !.explicit = TRUE], n)
     ELSE IF s.command = "None"
       THEN Raise([s EXCEPT !.executed = "None", !.explicit = FALSE],
                  "ValueError", s.elements)
     ELSE Branch([s EXCEPT !.last_command = s.command,
                           !.executed = s.command,
                           !.explicit = FALSE], n)

\* ------------------------------------------------------------------ the tokenizer

\* The characters of a drawn path string: two command letters, a digit, a
\* sign, the decimal point, the exponent letter, a comma, and two characters
\* that are neither a command letter nor part of a number nor a separator.
MaxChars == 4

Alphabet == {"M", "z", "1", "-", ".", "e", ",", "?", "x"}

Separators == {" ", ","}

\* [0-9] and [-+] of FLOAT_RE.
DIGITS == {"0", "1", "2", "3", "4", "5", "6", "7", "8", "9"}

SIGNS == {"-", "+"}

\* COMMAND_RE.split(pathdef): the text between command letters (empty where
\* two letters are adjacent, and at either end) alternating with the letters,
\* `piece` being the text gathered since the last letter.
RECURSIVE SplitFrom(_, _)
SplitFrom(s, piece) ==
  IF s = <<>> THEN <<piece>>
  ELSE IF Head(s) \in COMMANDS
    THEN <<piece, <<Head(s)>>>> \o SplitFrom(Tail(s), <<>>)
  ELSE SplitFrom(Tail(s), Append(piece, Head(s)))

Split(s) == SplitFrom(s, <<>>)

\* x in COMMANDS, for a piece x of the split.
IsCommand(x) == Len(x) = 1 /\ x[1] \in COMMANDS

\* The length of the run of digits of x that starts at index i.
RECURSIVE DigitsFrom(_, _)
DigitsFrom(x, i) ==
  IF i <= Len(x) /\ x[i] \in DIGITS THEN 1 + DigitsFrom(x, i + 1) ELSE 0

\* FLOAT_RE matched at index i of x: the index after the match, 0 when there
\* is none.  [-+]? [0-9]* \.? [0-9]+ (?: [eE] [-+]? [0-9]+ )?, greedy with
\* backtracking: the point is taken only with a digit after it, and the
\* exponent only with a digit in it.
MatchEnd(x, i) ==
  LET j == IF i <= Len(x) /\ x[i] \in SIGNS THEN i + 1 ELSE i
      n1 == DigitsFrom(x, j)
      k == j + n1
      n2 == IF k <= Len(x) /\ x[k] = "." THEN DigitsFrom(x, k + 1) ELSE 0
      m == IF n2 > 0 THEN k + 1 + n2 ELSE IF n1 > 0 THEN k ELSE 0
      es == IF m > 0 /\ m <= Len(x) /\ x[m] \in {"e", "E"}
              THEN (IF m + 1 <= Len(x) /\ x[m + 1] \in SIGNS
                      THEN m + 2 ELSE m + 1)
            ELSE 0
      n3 == IF es > 0 THEN DigitsFrom(x, es) ELSE 0
  IN IF n3 > 0 THEN es + n3 ELSE m

\* FLOAT_RE.findall(x) from index i on: the matches from left to right, text
\* that starts no match being passed over.
RECURSIVE FindAll(_, _)
FindAll(x, i) ==
  IF i > Len(x) THEN <<>>
  ELSE LET e == MatchEnd(x, i)
       IN IF e = 0 THEN FindAll(x, i + 1)
          ELSE <<SubSeq(x, i, e - 1)>> \o FindAll(x, e)

\* The path strings drawn for the tokenizer.
Strings == UNION {[1..n -> Alphabet] : n \in 0..MaxChars}

\* ------------------------------------------------------------------ arc math

\* The coordinates and radii of the arcs drawn for endpoint_to_center range
\* over 0..MaxCoord; the rotation is 0 degrees (cosr = 1, sinr = 0).
MaxCoord == 2

Coords == 0..MaxCoord

\* A quotient num / den of integers, den > 0, kept exact.
Rat(num, den) == <<num, den>>

RatEq(a, b) == a[1] * b[2] = b[1] * a[2]

Abs(v) == IF v < 0 THEN -v ELSE v

\* endpoint_to_center at rotation 0, on squares (the square roots of the
\* source are not taken): X = 2 * x1prim, Y = 2 * y1prim; radius_check and the
\* squared radii after `Correct out of range radii`; c * c of step 2.  The
\* divisions of lines 120 and 130 raise ZeroDivisionError on a zero divisor.
\* The center is the mid-point of start and end displaced by c along the
\* primed axes (c negated when large == sweep); the angles are not computed.
EndpointToCenter(start, radius, large, sweep, end) ==
  LET X == start[1] - end[1]
      Y == start[2] - end[2]
      rx0 == radius[1] * radius[1]
      ry0 == radius[2] * radius[2]
      check == Rat(X * X * ry0 + Y * Y * rx0, 4 * rx0 * ry0)
      corrected == check[1] > check[2]
      D == IF corrected THEN check[2] ELSE 1
      rxn == IF corrected THEN rx0 * check[1] ELSE rx0
      ryn == IF corrected THEN ry0 * check[1] ELSE ry0
      T == rxn * Y * Y + ryn * X * X
  IN IF rx0 = 0 \/ ry0 = 0
       THEN [error |-> "ZeroDivisionError", line |-> 120]
     ELSE IF T = 0
       THEN [error |-> "ZeroDivisionError", line |-> 130]
     ELSE [error |-> "", line |-> 177,
           radius_check |-> check,
           rx_sq |-> Rat(rxn, D),
           ry_sq |-> Rat(ryn, D),
           c_sq |-> Rat(Abs(4 * rxn * ryn - T * D), D * T),
           c_negated |-> (large = sweep),
           mid2 |-> <<start[1] + end[1], start[2] + end[2]>>]

\* Affine2D().scale(radius.real, radius.imag): the squares of the factors
\* the unit arc is scaled by, `radius` being the caller's.
ScaleOf(radius) ==
  <<Rat(radius[1] * radius[1], 1), Rat(radius[2] * radius[2], 1)>>

\* The arcs drawn.
ArcArgs ==
  [start : Coords \X Coords, radius : Coords \X Coords, rotation : {0},
   large : {0, 1}, sweep : {0, 1}, end : Coords \X Coords]

\* ------------------------------------------------------------------ inputs

\* The path strings of the test suite's PATH_DATA, as _tokenize_path splits
\* them (the '?' characters of arcs02 match neither regular expression and
\* yield no token).
PATH_triangle01 ==
  <<
    Cmd("M"), Num(100), Num(100), Cmd("L"), Num(300), Num(100), Cmd("L"),
    Num(200), Num(300), Cmd("z")
  >>

PATH_cubic01 ==
  <<
    Cmd("M"), Num(100), Num(200), Cmd("C"), Num(100), Num(100), Num(250),
    Num(100), Num(250), Num(200), Cmd("S"), Num(400), Num(300), Num(400),
    Num(200)
  >>

PATH_quad01a ==
  <<
    Cmd("M"), Num(200), Num(300), Cmd("Q"), Num(400), Num(50), Num(600),
    Num(300), Cmd("T"), Num(1000), Num(300)
  >>

PATH_quad01b ==
  <<
    Cmd("M"), Num(200), Num(300), Cmd("L"), Num(400), Num(50), Cmd("L"),
    Num(600), Num(300), Cmd("L"), Num(800), Num(550), Cmd("L"), Num(1000),
    Num(300)
  >>

PATH_arcs01a ==
  <<
    Cmd("M"), Num(300), Num(200), Cmd("h"), Num(-150), Cmd("a"), Num(150),
    Num(150), Num(0), Num(1), Num(0), Num(150), Num(-150), Cmd("z")
  >>

PATH_arcs01b ==
  <<
    Cmd("M"), Num(275), Num(175), Cmd("v"), Num(-150), Cmd("a"), Num(150),
    Num(150), Num(0), Num(0), Num(0), Num(-150), Num(150), Cmd("z")
  >>

PATH_arcs01c ==
  <<
    Cmd("M"), Num(600), Num(350), Cmd("l"), Num(50), Num(-25), Cmd("a"),
    Num(25), Num(25), Num(-30), Num(0), Num(1), Num(50), Num(-25),
    Cmd("l"), Num(50), Num(-25), Cmd("a"), Num(25), Num(50), Num(-30),
    Num(0), Num(1), Num(50), Num(-25), Cmd("l"), Num(50), Num(-25),
    Cmd("a"), Num(25), Num(75), Num(-30), Num(0), Num(1), Num(50),
    Num(-25), Cmd("l"), Num(50), Num(-25), Cmd("a"), Num(25), Num(100),
    Num(-30), Num(0), Num(1), Num(50), Num(-25), Cmd("l"), Num(50),
    Num(-25)
  >>

PATH_arcs02 ==
  <<
    Cmd("M"), Num(125), Num(75), Cmd("a"), Num(100), Num(50), Num(0),
    Num(100), Num(50)
  >>

PATH_DATA(name) ==
  CASE name = "triangle01" -> PATH_triangle01
    [] name = "cubic01" -> PATH_cubic01
    [] name = "quad01a" -> PATH_quad01a
    [] name = "quad01b" -> PATH_quad01b
    [] name = "arcs01a" -> PATH_arcs01a
    [] name = "arcs01b" -> PATH_arcs01b
    [] name = "arcs01c" -> PATH_arcs01c
    [] name = "arcs02" -> PATH_arcs02

TestNames ==
  {"triangle01", "cubic01", "quad01a", "quad01b",
   "arcs01a", "arcs01b", "arcs01c", "arcs02"}

\* Path strings given whole besides the tests': numbers after the Z that
\* closes a subpath ("M 0 0 L 1 1 Z 1 1"), and numbers with no command
\* letter before them ("1 1 M 0 0").
PATH_closed ==
  <<
    Cmd("M"), Num(0), Num(0), Cmd("L"), Num(1), Num(1), Cmd("Z"), Num(1),
    Num(1)
  >>

PATH_bare ==
  <<
    Num(1), Num(1), Cmd("M"), Num(0), Num(0)
  >>

GivenNames == {"closed", "bare"}

\* The tokens of a path string given whole.
TokensOf(name) ==
  CASE name \in TestNames -> PATH_DATA(name)
    [] name = "closed" -> PATH_closed
    [] name = "bare" -> PATH_bare

\* A path string that is not given whole: any token stream.
AnyPath == "*"

\* parse_path's current_pos argument: the default 0 + 0j, or a position the
\* caller supplies.
Origins == {<<0, 0>>, <<1, 2>>}

\* The tokens of a point.
Pt(p) == <<Num(p[1]), Num(p[2])>>

\* The points of a drawn M, L or T, and the control and end points of a
\* drawn C, S, Q or A.
Points == {<<x, y>> : x \in Vals, y \in Vals}

CurvePoints == {<<0, MaxVal>>, <<MaxVal, 0>>}

\* The radii, flags (large-arc, sweep) and rotation of a drawn arc.
Radii == {<<MaxVal, MaxVal>>, <<0, MaxVal>>}

Flags == {<<0, 0>>, <<0, 1>>}

\* The numbers that follow a command letter in a drawn token stream when
\* all of them are there.
Complete(c) ==
  CASE c \in {"M", "L", "T"} -> {Pt(p) : p \in Points}
    [] c \in {"H", "V"} -> {<<Num(v)>> : v \in Vals}
    [] c = "C" -> {Pt(p) \o Pt(q) \o Pt(e) :
                     p \in CurvePoints, q \in CurvePoints, e \in CurvePoints}
    [] c \in {"S", "Q"} -> {Pt(p) \o Pt(e) : p \in CurvePoints, e \in CurvePoints}
    [] c = "Z" -> {<<>>}
    [] c = "A" -> {Pt(r) \o <<Num(0)>> \o Pt(f) \o Pt(e) :
                     r \in Radii, f \in Flags, e \in CurvePoints}

\* ... and when the string ends, or the next command letter comes, before
\* the first or before the last of them.
Short(c) ==
  {Repeat(Num(0), j) \o tail :
     j \in {0, Reads(c) - 1} \cap Nat, tail \in {<<>>, <<Cmd("Z")>>}}

Args(c) == Complete(c) \cup Short(c)

\* ------------------------------------------------------------------ state

VARIABLES
  pathdef,       \* the path string: a key of PATH_DATA, or AnyPath
  origin,        \* parse_path's current_pos argument
  elements,      \* the pending tokens, next one first
  current_pos,
  start_pos,     \* None or a point
  command,       \* "None" or an uppercase command letter
  absolute,      \* unbound, or a boolean
  last_command,  \* "unbound", "None" or an uppercase command letter
  control,       \* the local `control` of the Q and T branches
  control2,      \* the local `control2` of the C and S branches
  status,        \* "run", "done" (the generator is exhausted) or "error"
  error,         \* the exception raised
  emitted,       \* what the last iteration yielded, in order
  ncodes,        \* len(codes) in parse_path
  nverts,        \* len(verts) in parse_path
  executed,      \* `command` at step 2 of the last iteration
  explicit,      \* whether the last iteration popped a command letter
  consumed,      \* the tokens the last iteration popped, in order
  last_moveto,   \* history: the position the most recent M set
  steps          \* iterations so far

\* _tokenize_path at work on a string of characters.
VARIABLES
  text,          \* the string given to _tokenize_path
  pieces,        \* what is left of COMMAND_RE.split(text), next piece first
  tokens         \* the tokens yielded so far

tokVars == <<text, pieces, tokens>>

\* The A branch at work on one arc: endpoint_to_center, then the transform.
VARIABLES
  arc_args,      \* start, radius, rotation, large, sweep, end
  arc_stage,     \* "idle", "called", "solved", "scaled" or "raised"
  arc_solved,    \* None, or what endpoint_to_center returned and solved for
  arc_scale,     \* None, or the factors of trans.scale, squared
  arc_error      \* the exception raised

arcVars == <<arc_args, arc_stage, arc_solved, arc_scale, arc_error>>

vars ==
  <<pathdef, origin, elements, current_pos, start_pos, command, absolute,
    last_command, control, control2, status, error, emitted, ncodes, nverts,
    executed, explicit, consumed, last_moveto, steps, tokVars, arcVars>>

\* The generator's frame.
Cur ==
  [elements |-> elements, current_pos |-> current_pos, start_pos |-> start_pos,
   command |-> command, absolute |-> absolute, last_command |-> last_command,
   control |-> control, control2 |-> control2, status |-> status,
   error |-> error, emitted |-> emitted, executed |-> executed,
   explicit |-> explicit, last_moveto |-> last_moveto]

\* The tokenizer is not under observation: the tokens are in `elements`.
TokIdle ==
  /\ text = <<>>
  /\ pieces = <<>>
  /\ tokens = <<>>

\* No arc is under observation: the A branch is part of the iteration.
ArcIdle ==
  /\ arc_args = None
  /\ arc_stage = "idle"
  /\ arc_solved = None
  /\ arc_scale = None
  /\ arc_error = ""

Init ==
  /\ TokIdle
  /\ ArcIdle
  /\ pathdef \in {AnyPath} \cup TestNames \cup GivenNames
  /\ origin \in Origins
  /\ elements = IF pathdef = AnyPath THEN <<>> ELSE TokensOf(pathdef)
  /\ current_pos = origin
  /\ start_pos = None
  /\ command = "None"
  /\ absolute = None
  /\ last_command = "unbound"
  /\ control = None
  /\ control2 = None
  /\ status = "run"
  /\ error = ""
  /\ emitted = <<>>
  /\ ncodes = 0
  /\ nverts = 0
  /\ executed = "None"
  /\ explicit = FALSE
  /\ consumed = <<>>
  /\ last_moveto = None
  /\ steps = 0

RECURSIVE CountCodes(_)
CountCodes(out) ==
  IF out = <<>> THEN 0 ELSE Len(Head(out).codes) + CountCodes(Tail(out))

RECURSIVE CountVerts(_)
CountVerts(out) ==
  IF out = <<>> THEN 0 ELSE Len(Head(out).verts) + CountVerts(Tail(out))

\* The iteration's result r becomes the state; parse_path extends codes and
\* verts by each (c, v) the iteration yielded.
Commit(r) ==
  /\ elements' = r.elements
  /\ current_pos' = r.current_pos
  /\ start_pos' = r.start_pos
  /\ command' = r.command
  /\ absolute' = r.absolute
  /\ last_command' = r.last_command
  /\ control' = r.control
  /\ control2' = r.control2
  /\ status' = r.status
  /\ error' = r.error
  /\ emitted' = r.emitted
  /\ executed' = r.executed
  /\ explicit' = r.explicit
  /\ last_moveto' = r.last_moveto
  /\ ncodes' = ncodes + CountCodes(r.emitted)
  /\ nverts' = nverts + CountVerts(r.emitted)
  /\ steps' = steps + 1
  /\ UNCHANGED <<pathdef, origin, tokVars, arcVars>>

ExplicitWindows ==
  [c \in UPPERCASE |-> {<<Cmd(l)>> \o a : l \in {c, Lower(c)}, a \in Args(c)}]

ImplicitWindows ==
  [c \in UPPERCASE |-> {a \in Args(c) : a # <<>> /\ ~Head(a).isCmd}]

\* The pending tokens an iteration that runs command c can find: those of
\* the test's string, or, in a drawn stream, the letter c in either case
\* with its numbers, or numbers alone when c is the active command.
Pending(c) ==
  IF pathdef # AnyPath
    THEN IF elements # <<>>
            /\ (IF Head(elements).isCmd THEN Upper(Head(elements).letter)
                ELSE command) = c
           THEN {elements} ELSE {}
  ELSE IF steps >= MaxSteps THEN {}
  ELSE ExplicitWindows[c] \cup (IF command = c THEN ImplicitWindows[c] ELSE {})

\* One iteration of the loop on the pending tokens w, Path.arc making n
\* segments if the iteration gets to call it.
Exec(w, n) ==
  \E r \in {Iter([Cur EXCEPT !.elements = w], n)} :
     /\ pathdef = AnyPath => (r.status = "error" \/ r.elements = <<>>)
     /\ consumed' = SubSeq(w, 1, Len(w) - Len(r.elements))
     /\ Commit(r)

Moveto ==
  /\ status = "run"
  /\ \E w \in Pending("M") : Exec(w, 1)

Closepath ==
  /\ status = "run"
  /\ \E w \in Pending("Z") : Exec(w, 1)

Lineto ==
  /\ status = "run"
  /\ \E w \in Pending("L") : Exec(w, 1)

HorizontalLineto ==
  /\ status = "run"
  /\ \E w \in Pending("H") : Exec(w, 1)

VerticalLineto ==
  /\ status = "run"
  /\ \E w \in Pending("V") : Exec(w, 1)

CubicBezier ==
  /\ status = "run"
  /\ \E w \in Pending("C") : Exec(w, 1)

SmoothCubicBezier ==
  /\ status = "run"
  /\ \E w \in Pending("S") : Exec(w, 1)

QuadraticBezier ==
  /\ status = "run"
  /\ \E w \in Pending("Q") : Exec(w, 1)

SmoothQuadraticBezier ==
  /\ status = "run"
  /\ \E w \in Pending("T") : Exec(w, 1)

EllipticalArc ==
  /\ status = "run"
  /\ \E w \in Pending("A"), n \in DrawnSegments : Exec(w, n)

\* A number where no command is active: "Unallowed implicit command".
UnallowedImplicit ==
  /\ status = "run"
  /\ command = "None"
  /\ \E w \in (IF pathdef # AnyPath
                 THEN (IF elements # <<>> /\ ~Head(elements).isCmd
                         THEN {elements} ELSE {})
               ELSE IF steps >= MaxSteps THEN {}
               ELSE {<<Num(v)>> : v \in Vals}) :
       Exec(w, 1)

\* `while elements:` finds the list empty: the generator returns and
\* parse_path builds Path(verts, codes).
Return_Partial ==
  /\ status \in {"run", "error"}
  /\ status = "run" => elements = <<>>
  /\ status' = "done"
  /\ UNCHANGED <<pathdef, origin, elements, current_pos, start_pos, command,
                 absolute, last_command, control, control2, error, emitted,
                 ncodes, nverts, executed, explicit, consumed, last_moveto,
                 steps, tokVars, arcVars>>

Return ==
  /\ status = "run"
  /\ elements = <<>>
  /\ status' = "done"
  /\ UNCHANGED <<pathdef, origin, elements, current_pos, start_pos, command,
                 absolute, last_command, control, control2, error, emitted,
                 ncodes, nverts, executed, explicit, consumed, last_moveto,
                 steps, tokVars, arcVars>>

Next ==
  \/ Moveto
  \/ Closepath
  \/ Lineto
  \/ HorizontalLineto
  \/ VerticalLineto
  \/ CubicBezier
  \/ SmoothCubicBezier
  \/ QuadraticBezier
  \/ SmoothQuadraticBezier
  \/ EllipticalArc
  \/ UnallowedImplicit
  \/ Return

Spec == Init /\ [][Next]_vars

\* ------------------------------------------------------------------ the tokenizer at work

\* The parser's frame while the string is tokenized: nothing has run yet.
ParserIdle ==
  /\ pathdef = AnyPath
  /\ origin = <<0, 0>>
  /\ elements = <<>>
  /\ current_pos = origin
  /\ start_pos = None
  /\ command = "None"
  /\ absolute = None
  /\ last_command = "unbound"
  /\ control = None
  /\ control2 = None
  /\ status = "run"
  /\ error = ""
  /\ emitted = <<>>
  /\ ncodes = 0
  /\ nverts = 0
  /\ executed = "None"
  /\ explicit = FALSE
  /\ consumed = <<>>
  /\ last_moveto = None
  /\ steps = 0

parseVars ==
  <<pathdef, origin, elements, current_pos, start_pos, command, absolute,
    last_command, control, control2, status, error, emitted, ncodes, nverts,
    executed, explicit, consumed, last_moveto, steps>>

TokInit ==
  /\ text \in Strings
  /\ pieces = Split(text)
  /\ tokens = <<>>
  /\ ParserIdle
  /\ ArcIdle

\* One turn of `for x in COMMAND_RE.split(pathdef)` on a command letter: the
\* letter is yielded, and FLOAT_RE finds nothing in it.
TokenizeCommand ==
  /\ pieces # <<>>
  /\ IsCommand(Head(pieces))
  /\ tokens' = Append(tokens, Head(pieces)) \o FindAll(Head(pieces), 1)
  /\ pieces' = Tail(pieces)
  /\ UNCHANGED <<text, parseVars, arcVars>>

\* One turn on the text between two letters: the matches of FLOAT_RE in it
\* are yielded in order.
TokenizeText ==
  /\ pieces # <<>>
  /\ ~IsCommand(Head(pieces))
  /\ tokens' = tokens \o FindAll(Head(pieces), 1)
  /\ pieces' = Tail(pieces)
  /\ UNCHANGED <<text, parseVars, arcVars>>

TokNext ==
  \/ TokenizeCommand
  \/ TokenizeText

TokSpec == TokInit /\ [][TokNext]_vars

\* ------------------------------------------------------------------ the A branch at work

ArcInit ==
  /\ arc_args \in ArcArgs
  /\ arc_stage = "called"
  /\ arc_solved = None
  /\ arc_scale = None
  /\ arc_error = ""
  /\ ParserIdle
  /\ TokIdle

\* center, theta1, theta2 = endpoint_to_center(current_pos, radius, rotation,
\* large, sweep, end)
ConvertArc ==
  /\ arc_stage = "called"
  /\ \E r \in {EndpointToCenter(arc_args.start, arc_args.radius,
                                 arc_args.large, arc_args.sweep,
                                 arc_args.end)} :
       IF r.error # ""
         THEN /\ arc_stage' = "raised"
              /\ arc_error' = r.error
              /\ UNCHANGED arc_solved
       ELSE /\ arc_stage' = "solved"
            /\ arc_solved' = Some(r)
            /\ UNCHANGED arc_error
  /\ UNCHANGED <<arc_args, arc_scale, parseVars, tokVars>>

\* Path.arc on the angles, then trans = Affine2D().scale(radius.real,
\* radius.imag).translate(center).rotate_deg_around(center, rotation).
TransformArc ==
  /\ arc_stage = "solved"
  /\ arc_stage' = "scaled"
  /\ arc_scale' = Some(ScaleOf(arc_args.radius))
  /\ UNCHANGED <<arc_args, arc_solved, arc_error, parseVars, tokVars>>

ArcNext ==
  \/ ConvertArc
  \/ TransformArc

ArcSpec == ArcInit /\ [][ArcNext]_vars

\* ------------------------------------------------------------------ properties

\* The vertices an opcode takes (MOVE 1, LINE 1, CURVE3 2, CURVE4 3, CLOSE 1).
OpcodeArity(op) ==
  CASE op = "MOVETO" -> 1
    [] op = "LINETO" -> 1
    [] op = "CURVE3" -> 2
    [] op = "CURVE4" -> 3
    [] op = "CLOSEPOLY" -> 1

\* codes is a succession of runs, each one opcode repeated its arity times.
RECURSIVE InRuns(_)
InRuns(codes) ==
  \/ codes = <<>>
  \/ LET k == OpcodeArity(Head(codes))
     IN /\ k <= Len(codes)
        /\ \A i \in 1..k : codes[i] = Head(codes)
        /\ InRuns(SubSeq(codes, k + 1, Len(codes)))

\* C1: every instruction yielded carries as many vertices as opcodes and its
\* opcodes come in runs of their arity (one run for every command but A,
\* whose instruction is a run per arc segment, after a MOVETO when the sweep
\* flag is clear), so len(codes) = len(verts) in parse_path at every point,
\* and at the end of a parse without error in particular.
C1_VerticesMatchOpcodes ==
  /\ \A i \in 1..Len(emitted) :
       /\ Len(emitted[i].codes) = Len(emitted[i].verts)
       /\ emitted[i].codes # <<>>
       /\ InRuns(emitted[i].codes)
       /\ executed # "A" =>
            Len(emitted[i].codes) = OpcodeArity(emitted[i].codes[1])
  /\ ncodes = nverts

\* An arc with a truthy sweep flag was yielded (its first vertex dropped)
\* after some other instruction.
C1_Witness ==
  /\ status = "done"
  /\ executed = "A"
  /\ emitted # <<>>
  /\ emitted[1].codes[1] = "CURVE4"
  /\ ncodes > Len(emitted[1].codes)

MoveTo(p) == Instr(<<"MOVETO">>, <<p>>)

LineTo(p) == Instr(<<"LINETO">>, <<p>>)

ClosePoly(p) == Instr(<<"CLOSEPOLY">>, <<p>>)

\* What each iteration on "M 100 100 L 300 100 L 200 300 z" is to yield.
TriangleYields ==
  <<  <<MoveTo(<<100, 100>>)>>,
      <<LineTo(<<300, 100>>)>>,
      <<LineTo(<<200, 300>>)>>,
      <<LineTo(<<100, 100>>), ClosePoly(<<100, 100>>)>>  >>

\* A step that ran command c to its end.
Ran(c) == steps' = steps + 1 /\ executed' = c /\ status' = "run"

\* C2: a Z run where subpath_start is a point yields LINE[subpath_start],
\* CLOSE[subpath_start] when current_pos differs from it and CLOSE[subpath_start]
\* alone when it does not; the iterations on the triangle01 string yield
\* MOVE, LINE, LINE, then LINE and CLOSE back to (100, 100), five opcodes in
\* all, and the parse ends there.
C2_CloseYields ==
  /\ [][Ran("Z") /\ start_pos # None =>
          emitted' = IF current_pos # start_pos[1]
                       THEN <<LineTo(start_pos[1]), ClosePoly(start_pos[1])>>
                       ELSE <<ClosePoly(start_pos[1])>>]_vars
  /\ [](pathdef = "triangle01" =>
          /\ status # "error"
          /\ steps <= 4
          /\ steps > 0 => emitted = TriangleYields[steps]
          /\ status = "done" => steps = 4 /\ ncodes = 5 /\ nverts = 5)

\* The triangle01 string was parsed to its end, its z closing from (200, 300).
C2_Witness ==
  /\ pathdef = "triangle01"
  /\ status = "done"
  /\ executed = "Z"
  /\ Len(emitted) = 2

\* C3: whenever a Z is executed after some M, it completes (subpath_start is
\* a point then) and resolves against the position the most recent M set.
C3_CloseAfterMoveCompletes ==
  executed = "Z" /\ last_moveto # None =>
    status # "error" /\ current_pos = last_moveto[1]

\* C4: an M that runs sets subpath_start to the new current_pos; a command
\* other than M and Z leaves subpath_start as it is; every Z executed after
\* an M runs to its end, sets current_pos to what that M set and clears
\* subpath_start.
C4_MoveSetsCloseClears ==
  [][steps' = steps + 1 =>
       /\ Ran("M") =>
            /\ start_pos' = Some(current_pos')
            /\ current_pos' =
                 IF absolute' = Some(TRUE)
                   THEN <<consumed'[2].num, consumed'[3].num>>
                   ELSE <<current_pos[1] + consumed'[2].num,
                          current_pos[2] + consumed'[3].num>>
       /\ executed' \notin {"M", "Z"} => start_pos' = start_pos
       /\ executed' = "Z" /\ last_moveto # None =>
            /\ status' = "run"
            /\ current_pos' = last_moveto[1]
            /\ start_pos' = None]_vars

\* The numbers at the head of the pending tokens.
RECURSIVE NumbersAhead(_)
NumbersAhead(els) ==
  IF els = <<>> \/ Head(els).isCmd THEN 0 ELSE 1 + NumbersAhead(Tail(els))

\* The iteration found all the numbers of its command: it ran to its end, or
\* it raised with them still pending.
NumbersThere(c) ==
  status' = "run" \/ NumbersAhead(elements') >= Reads(c)

\* C5: an S that does not follow C or S, and a T that does not follow Q or T
\* (whatever precedes, no command at all and Z included), yields its curve
\* with current_pos as the synthesized control point.
C5_NoReflectionYieldsCurve ==
  [][steps' = steps + 1 =>
       /\ (executed' = "S" /\ last_command' \notin {"C", "S"}
             /\ NumbersThere("S")) =>
            /\ status' = "run"
            /\ Len(emitted') = 1
            /\ emitted'[1].codes = <<"CURVE4", "CURVE4", "CURVE4">>
            /\ emitted'[1].verts[1] = current_pos
            /\ emitted'[1].verts[3] = current_pos'
       /\ (executed' = "T" /\ last_command' \notin {"Q", "T"}
             /\ NumbersThere("T")) =>
            /\ status' = "run"
            /\ Len(emitted') = 1
            /\ emitted'[1].codes = <<"CURVE3", "CURVE3">>
            /\ emitted'[1].verts[1] = current_pos
            /\ emitted'[1].verts[2] = current_pos']_vars

\* 2 * about - p, componentwise.
Mirror(p, about) == <<2 * about[1] - p[1], 2 * about[2] - p[2]>>

\* C6: the control point of a T that follows Q or T is 2 * current_pos minus
\* the control point the preceding curve was yielded with, and the first
\* control point of an S that follows C or S is 2 * current_pos minus the
\* second control point of the preceding curve; on the quad01a string the T
\* yields the control point (800, 550), and on cubic01 the S yields (250, 300).
C6_ReflectedControl ==
  /\ [][steps' = steps + 1 /\ status' = "run" =>
          /\ executed' = "T" /\ last_command' \in {"Q", "T"} =>
               /\ emitted[1].codes = <<"CURVE3", "CURVE3">>
               /\ emitted[1].verts[2] = current_pos
               /\ emitted'[1].verts[1] = Mirror(emitted[1].verts[1], current_pos)
          /\ executed' = "S" /\ last_command' \in {"C", "S"} =>
               /\ emitted[1].codes = <<"CURVE4", "CURVE4", "CURVE4">>
               /\ emitted[1].verts[3] = current_pos
               /\ emitted'[1].verts[1] = Mirror(emitted[1].verts[2], current_pos)
       ]_vars
  /\ [](/\ pathdef = "quad01a" /\ steps = 3 =>
             emitted = <<Instr(<<"CURVE3", "CURVE3">>,
                               <<<<800, 550>>, <<1000, 300>>>>)>>
        /\ pathdef = "cubic01" /\ steps = 3 =>
             emitted = <<Instr(<<"CURVE4", "CURVE4", "CURVE4">>,
                               <<<<250, 300>>, <<400, 300>>, <<400, 200>>>>)>>)

\* The point a pair of numeric tokens spells.
PointOf(toks, i) == <<toks[i].num, toks[i + 1].num>>

\* The numbers an iteration read, without the command letter it popped.
NumbersRead(toks, popped) == IF popped THEN Tail(toks) ELSE toks

\* A relative t ran after a Q or T whose control point was not its end
\* point, so that the reflected control point is not where the t started.
C6_Witness ==
  /\ status = "run"
  /\ executed = "T"
  /\ last_command \in {"Q", "T"}
  /\ absolute = Some(FALSE)
  /\ Len(NumbersRead(consumed, explicit)) = 2
  /\ emitted[1].verts[1] # Sub(current_pos, PointOf(NumbersRead(consumed, explicit), 1))

\* C7: numbers that follow an M without a command letter run as L, never as
\* M: the iteration yields one LINE, to the point read when the M was
\* absolute and to current_pos plus that point when it was relative, keeps
\* the flag and leaves subpath_start alone.
C7_ImplicitAfterMoveIsLine ==
  [][(steps' = steps + 1 /\ executed = "M" /\ status = "run" /\ ~explicit') =>
       /\ executed' = "L"
       /\ absolute' = absolute
       /\ start_pos' = start_pos
       /\ last_moveto' = last_moveto
       /\ status' = "run" =>
            /\ Len(consumed') = 2
            /\ emitted' =
                 <<LineTo(IF absolute = Some(TRUE) THEN PointOf(consumed', 1)
                          ELSE <<current_pos[1] + consumed'[1].num,
                                 current_pos[2] + consumed'[2].num>>)>>
            /\ current_pos' = emitted'[1].verts[1]]_vars

\* Numbers followed a relative m and ran as a line away from where the m went.
C7_Witness ==
  /\ status = "run"
  /\ steps = 2
  /\ executed = "L"
  /\ ~explicit
  /\ absolute = Some(FALSE)
  /\ last_moveto # None
  /\ start_pos = last_moveto
  /\ current_pos # last_moveto[1]
  /\ current_pos # PointOf(consumed, 1)

\* C8: the first MOVE vertex is the caller's starting position plus the
\* coordinates given, for M as for m.
C8_InitialMoveRelativeToOrigin ==
  (steps = 1 /\ executed = "M" /\ status = "run") =>
    emitted[1].verts[1] =
      <<origin[1] + consumed[2].num, origin[2] + consumed[3].num>>

\* The numbers of the absolute form of command c that name the same points
\* as the relative numbers toks do from position cp: every coordinate of
\* M, L, C, S, Q, T, the one coordinate of H and V, the end point of A.
Shifted(c, toks, cp) ==
  [i \in 1..Len(toks) |->
     Num(toks[i].num +
           (CASE c = "H" -> cp[1]
              [] c = "V" -> cp[2]
              [] c = "A" -> (IF i = 6 THEN cp[1] ELSE IF i = 7 THEN cp[2] ELSE 0)
              [] OTHER -> (IF i % 2 = 1 THEN cp[1] ELSE cp[2])))]

C10_ArcYieldsOnlyCurves ==
  /\ (executed = "A" /\ status = "run") =>
       /\ Len(emitted) = 1
       /\ Len(emitted[1].codes) % 3 = 0
       /\ \A i \in 1..Len(emitted[1].codes) : emitted[1].codes[i] = "CURVE4"
  /\ (pathdef = "arcs01a" /\ status = "run") =>
       /\ steps = 1 => emitted = <<MoveTo(<<300, 200>>)>>
       /\ steps = 2 => emitted = <<LineTo(<<150, 200>>)>>
       /\ steps = 4 => emitted = <<LineTo(<<300, 200>>), ClosePoly(<<300, 200>>)>>
  /\ (pathdef = "arcs01a" /\ status = "done") => steps = 4

\* The first iteration found a number at the head of the token list.
FirstTokenIsNumber == steps = 1 /\ ~explicit

\* C11 as stated: a path string whose first token is a number fails with
\* SyntaxError before any instruction is yielded.
C11_BareNumberIsSyntaxError ==
  FirstTokenIsNumber =>
    /\ status = "error"
    /\ error = "SyntaxError"
    /\ ncodes = 0

\* C11, amended: a path string whose first token is a number fails with
\* ValueError ("Unallowed implicit command") in the first iteration, before
\* any instruction is yielded and without reading the number.
C11_BareNumberIsValueError ==
  FirstTokenIsNumber =>
    /\ status = "error"
    /\ error = "ValueError"
    /\ executed = "None"
    /\ consumed = <<>>
    /\ emitted = <<>>
    /\ ncodes = 0
    /\ nverts = 0

\* The parse of a string that starts with a number has failed.
C11_Witness ==
  /\ FirstTokenIsNumber
  /\ status = "error"
  /\ elements # <<>>
  /\ ~Head(elements).isCmd

\* C12: a Z that runs leaves no active command, and an iteration that then
\* finds a number fails without running Z or any other command: it reads
\* nothing, yields nothing and moves nothing.
C12_NoImplicitAfterClose ==
  /\ [](executed = "Z" /\ status # "error" => command = "None")
  /\ [][(steps' = steps + 1 /\ executed = "Z" /\ status = "run" /\ ~explicit') =>
          /\ status' = "error"
          /\ error' = "ValueError"
          /\ executed' = "None"
          /\ consumed' = <<>>
          /\ emitted' = <<>>
          /\ current_pos' = current_pos
          /\ start_pos' = start_pos
          /\ ncodes' = ncodes]_vars

\* A number came after the Z that closed a subpath, and the parse failed on
\* it with the subpath's instructions already yielded.
C12_Witness ==
  /\ status = "error"
  /\ error = "ValueError"
  /\ executed = "None"
  /\ steps >= 3
  /\ last_moveto # None
  /\ start_pos = None
  /\ command = "None"
  /\ ncodes >= 2
  /\ elements # <<>>
  /\ ~Head(elements).isCmd

\* The characters of the tokens ts, counted.
RECURSIVE CharsIn(_)
CharsIn(ts) == IF ts = <<>> THEN 0 ELSE Len(Head(ts)) + CharsIn(Tail(ts))

\* The whitespace and commas of the string s, counted.
RECURSIVE SeparatorsIn(_)
SeparatorsIn(s) ==
  IF s = <<>> THEN 0
  ELSE (IF Head(s) \in Separators THEN 1 ELSE 0) + SeparatorsIn(Tail(s))

\* C13: the tokenizer does not come to its end on a string that holds text
\* which is neither a command letter, nor a number, nor whitespace or a
\* comma: when it has yielded its last token without an error, every
\* character of the string is in a token or is a separator.
C13_NoTextSkipped ==
  pieces = <<>> => CharsIn(tokens) + SeparatorsIn(text) = Len(text)

\* C14: a parse that failed, at whatever iteration, returns nothing: the
\* error leaves parse_path, whose return is reached only without one, and
\* nothing runs after the failure.
C14_NoPartialPath ==
  /\ [](status = "done" => error = "")
  /\ [][status = "error" => UNCHANGED vars]_vars

\* The parse failed after instructions had been yielded and collected.
C14_Witness ==
  /\ status = "error"
  /\ error # ""
  /\ steps >= 2
  /\ ncodes > 0
  /\ emitted = <<>>

\* The numeric tokens among those an iteration popped.
NumbersPopped(toks) == Cardinality({i \in 1..Len(toks) : ~toks[i].isCmd})

\* C15 as stated: a command that runs consumes the number of numeric tokens
\* the PARAMS table gives for it.
C15_ConsumesParams ==
  [][(steps' = steps + 1 /\ status' = "run") =>
        NumbersPopped(consumed') = PARAMS(executed')]_vars

\* What the branches read: the PARAMS arity, but two numbers fewer for S and
\* for T (the control point they synthesize is not read).
Arity(c) == IF c \in {"S", "T"} THEN PARAMS(c) - 2 ELSE PARAMS(c)

\* C15, amended: a command that runs to its end, explicit or implicit,
\* consumes exactly M=2, L=2, H=1, V=1, Q=4, T=2, C=6, S=4, Z=0, A=7 numeric
\* tokens and no other token but its own letter; one that fails for want of
\* a number has found fewer than that.
C15_ConsumesBranchArity ==
  [][(steps' = steps + 1 /\ executed' \in UPPERCASE) =>
       /\ NumbersPopped(consumed') <= Arity(executed')
       /\ status' = "run" =>
            /\ NumbersPopped(consumed') = Arity(executed')
            /\ Len(consumed') = Arity(executed') + (IF explicit' THEN 1 ELSE 0)
            /\ explicit' => consumed'[1].isCmd
       /\ (status' = "error" /\ error' \in {"IndexError", "ValueError"}) =>
            NumbersPopped(consumed') < Arity(executed')
       /\ pathdef # AnyPath =>
            /\ Len(consumed') <= Len(elements)
            /\ consumed' = SubSeq(elements, 1, Len(consumed'))
            /\ elements' = SubSeq(elements, Len(consumed') + 1, Len(elements))
    ]_vars

\* An implicit T ran on two numbers.
C15_Witness ==
  /\ status = "run"
  /\ executed = "T"
  /\ ~explicit
  /\ Len(consumed) = 2
  /\ NumbersPopped(consumed) = 2

\* C16: the conversion of an arc returns, whatever the arguments: no call of
\* endpoint_to_center raises.
C16_ArcConversionReturns ==
  arc_stage # "called" =>
    /\ arc_stage \in {"solved", "scaled"}
    /\ arc_error = ""
    /\ arc_solved # None

\* C17: where radius_check > 1 the radii solved for are the given radii times
\* sqrt(radius_check) (their squares times radius_check), and the factors the
\* unit arc is scaled by are the radii the center was solved for.
C17_ScaledByCorrectedRadii ==
  arc_stage = "scaled" =>
    LET r == arc_solved[1]
        rx0 == arc_args.radius[1] * arc_args.radius[1]
        ry0 == arc_args.radius[2] * arc_args.radius[2]
    IN /\ r.radius_check[1] > r.radius_check[2] =>
            /\ RatEq(r.rx_sq, Rat(rx0 * r.radius_check[1], r.radius_check[2]))
            /\ RatEq(r.ry_sq, Rat(ry0 * r.radius_check[1], r.radius_check[2]))
       /\ RatEq(arc_scale[1][1], r.rx_sq)
       /\ RatEq(arc_scale[1][2], r.ry_sq)

\* C18: an A that runs yields one instruction: with a truthy sweep flag the
\* arc without its first vertex and opcode (CURVE4 opcodes alone, from the
\* arc's second vertex on), otherwise the whole arc (its MOVETO vertex, then
\* the CURVE4 ones); either way current_pos becomes the end point read,
\* offset by the previous current_pos when relative.
C18_SweepDropsFirst ==
  [][Ran("A") =>
       LET args == NumbersRead(consumed', explicit')
           codes == emitted'[1].codes
           verts == emitted'[1].verts
           n == Len(codes) \div 3
       IN /\ Len(emitted') = 1
          /\ n >= 1
          /\ Len(verts) = Len(codes)
          /\ args[5].num # 0 =>
               /\ Len(codes) = 3 * n
               /\ \A i \in 1..(3 * n) :
                    codes[i] = "CURVE4" /\ verts[i] = ArcVertex(i)
          /\ args[5].num = 0 =>
               /\ Len(codes) = 3 * n + 1
               /\ codes[1] = "MOVETO" /\ verts[1] = ArcVertex(0)
               /\ \A i \in 2..(3 * n + 1) :
                    codes[i] = "CURVE4" /\ verts[i] = ArcVertex(i - 1)
          /\ current_pos' =
               IF absolute' = Some(TRUE) THEN PointOf(args, 6)
               ELSE <<current_pos[1] + args[6].num,
                      current_pos[2] + args[7].num>>]_vars

\* A relative arc with the sweep flag set ran from a position other than
\* the origin and was yielded from its second vertex on.
C18_Witness ==
  /\ status = "run"
  /\ executed = "A"
  /\ absolute = Some(FALSE)
  /\ NumbersRead(consumed, explicit)[5].num = 1
  /\ emitted[1].verts[1] = ArcVertex(1)
  /\ current_pos # PointOf(NumbersRead(consumed, explicit), 6)

\* C19: an H that runs changes x alone and a V y alone, to the number read
\* when absolute and by it when relative, explicit or implicit; each leaves
\* subpath_start alone and yields one LINE at the new current_pos.
C19_OtherAxisKept ==
  [][(steps' = steps + 1 /\ status' = "run" /\ executed' \in {"H", "V"}) =>
       LET v == NumbersRead(consumed', explicit')[1].num
           k == IF executed' = "H" THEN 1 ELSE 2
       IN /\ current_pos'[3 - k] = current_pos[3 - k]
          /\ current_pos'[k] =
               IF absolute' = Some(TRUE) THEN v ELSE current_pos[k] + v
          /\ start_pos' = start_pos
          /\ last_moveto' = last_moveto
          /\ emitted' = <<LineTo(current_pos')>>]_vars

\* An implicit relative v ran from a position off both axes.
C19_Witness ==
  /\ status = "run"
  /\ executed = "V"
  /\ ~explicit
  /\ absolute = Some(FALSE)
  /\ current_pos[1] # 0
  /\ consumed[1].num # 0
  /\ current_pos[2] # consumed[1].num
  /\ emitted = <<LineTo(current_pos)>>

\* C20: every iteration pops at least one token or fails, and pops tokens
\* from the head of the list only, so that on a path string given whole the
\* iterations made never outnumber the tokens popped (but for the one that
\* failed) nor the tokens of the string.
C20_IterationsBoundedByTokens ==
  /\ [][steps' = steps + 1 =>
          /\ status' = "error" \/ Len(consumed') >= 1
          /\ pathdef # AnyPath =>
               /\ Len(consumed') <= Len(elements)
               /\ elements' = SubSeq(elements, Len(consumed') + 1, Len(elements))
       ]_vars
  /\ [](pathdef # AnyPath =>
          /\ steps <= Len(TokensOf(pathdef)) - Len(elements)
                      + (IF status = "error" THEN 1 ELSE 0)
          /\ steps <= Len(TokensOf(pathdef))
          /\ status = "done" => elements = <<>>)

\* The parse of "M 0 0 L 1 1 Z 1 1" made its fourth iteration, which popped
\* nothing and failed with two tokens left.
C20_Witness ==
  /\ pathdef = "closed"
  /\ steps = 4
  /\ status = "error"
  /\ consumed = <<>>
  /\ Len(elements) = 2

\* The tokens an iteration found pending: those it popped, then those it left.
Found == consumed' \o elements'

\* C21: a command that finds fewer numbers than it reads before the token
\* list ends or the next command letter comes yields nothing: the iteration
\* fails, with the position, the subpath start and the instructions
\* collected as they were, and no iteration follows a failed one.
C21_IncompleteArgumentsFail ==
  /\ [][(/\ steps' = steps + 1
         /\ executed' \in UPPERCASE
         /\ NumbersAhead(NumbersRead(Found, explicit')) < Arity(executed')) =>
          /\ status' = "error"
          /\ error' \in {"IndexError", "ValueError", "TypeError"}
          /\ emitted' = <<>>
          /\ ncodes' = ncodes
          /\ nverts' = nverts
          /\ current_pos' = current_pos
          /\ start_pos' = start_pos]_vars
  /\ [][status = "error" => (status' = "error" /\ steps' = steps)]_vars

\* After an instruction was yielded, a command read a command letter where
\* its last number was to be, and the parse failed there.
C21_Witness ==
  /\ status = "error"
  /\ error = "ValueError"
  /\ executed \in UPPERCASE
  /\ ncodes > 0
  /\ Len(consumed) >= 2
  /\ consumed[Len(consumed)].isCmd
  /\ NumbersPopped(consumed) = Arity(executed) - 1
  /\ NumbersPopped(consumed) >= 1

====
